---- MODULE Spec2Model ----
(***************************************************************************)
(* Model of the more-info history panel, MoreInfoHistory                   *)
(* (src/dialogs/more-info/ha-more-info-history.ts).                        *)
(*                                                                         *)
(* The component runs on the browser's single-threaded event loop.  One    *)
(* action of the model is one run-to-completion piece of the component:    *)
(* a lifecycle callback, the synchronous part of _getStateHistory up to    *)
(* an await, the resumption after an await, the settlement of the          *)
(* subscription promise together with the reactions registered on it, a    *)
(* pushed history message, a timer tick, or the microtask checkpoint that  *)
(* runs the .then() continuations registered on an already settled         *)
(* promise.  Tasks (messages, timers, property updates) only start when no *)
(* microtask is queued; connectedCallback and disconnectedCallback are     *)
(* synchronous DOM reactions and may run between the registration of a     *)
(* continuation and the checkpoint that runs it.                           *)
(*                                                                         *)
(* Optional fields (T | undefined) are sequences of length at most one,    *)
(* ids (promise, timer, error) are positive integers with 0 = undefined.   *)
(* The fields _showMoreHref and _statNames are only read by the markup     *)
(* and are left out.                                                       *)
(***************************************************************************)
EXTENDS Bags, FiniteSets, Integers, Sequences, TLC

\* Bounds of the exploration.
MaxSubs == 2     \* subscriptions opened in one behaviour
MaxCalls == 2    \* _getStateHistory invocations suspended at an await
MaxThens == 2    \* .then() continuations registered on one promise

\* The entity ids the host may set; NoEntity is the unset (falsy) entityId.
NoEntity == ""
Entities == {"sensor.a", "light.b"}
Components == {"recorder", "history"}

statTypes == <<"state", "min", "mean", "max">>

computeDomain(e) ==
  IF e = "sensor.a" THEN "sensor"
  ELSE IF e = "light.b" THEN "light"
  ELSE ""

isComponentLoaded(h, c) == c \in h

VARIABLES
  statisticIds,   \* backend: the entities the recorder has statistics for
  hass,           \* hass.config.components: the loaded backend modules
  entityId,       \* property entityId
  isConnected,    \* the element is in the document
  hasUpdated,     \* LitElement.hasUpdated: the first update has run
  _stateHistory,  \* <<>> or <<[sub, obj]>>
  _statistics,    \* <<>> or <<[request, meta]>>
  _interval,      \* 0 or the id returned by the last setInterval
  _subscribed,    \* 0 or the id of the promise stored in the handle
  _error,         \* 0 or the id of the subscription whose rejection was stored
  subs,           \* backend subscriptions / their promises, by id
  calls,          \* bag of _getStateHistory invocations suspended at an await
  timers,         \* ids of the window's live interval timers
  timerSeq,       \* last id handed out by window.setInterval
  microtasks,     \* queued .then() continuations (promise ids), FIFO
  errorStale      \* the entity id has changed since _error was stored

\* The backend's answer to getStatisticMetadata(hass, [e]).
getStatisticMetadata(e) == IF e \in statisticIds THEN <<e>> ELSE <<>>

\* The backend and the configuration do not change while the dialog is open.
env == <<statisticIds, hass>>

vars == <<statisticIds, hass, entityId, isConnected, hasUpdated, _stateHistory,
          _statistics, _interval, _subscribed, _error, subs, calls, timers,
          timerSeq, microtasks, errorStale>>

subVars == <<_subscribed, subs, _interval, timers, timerSeq>>

SubIds == DOMAIN subs

\* A backend subscription is live from the moment it is requested until it
\* is rejected or its unsubscribe action has been invoked.
Live(s) ==
  subs[s].state \in {"pending", "established"} /\ subs[s].unsubCalls = 0

LiveSubs == {s \in SubIds : Live(s)}

Idle == calls = EmptyBag /\ microtasks = <<>>

Init ==
  /\ statisticIds \in SUBSET {e \in Entities : computeDomain(e) = "sensor"}
  /\ hass \in SUBSET Components
  /\ entityId = NoEntity
  /\ isConnected = FALSE
  /\ hasUpdated = FALSE
  /\ _stateHistory = <<>>
  /\ _statistics = <<>>
  /\ _interval = 0
  /\ _subscribed = 0
  /\ _error = 0
  /\ subs = <<>>
  /\ calls = EmptyBag
  /\ timers = {}
  /\ timerSeq = 0
  /\ microtasks = <<>>
  /\ errorStale = FALSE

\* render() with the statistics chart tested before the error.
RenderStatsFirst ==
  IF entityId = NoEntity THEN "empty"
  ELSE IF ~isComponentLoaded(hass, "history") THEN "disabled"
  ELSE IF _statistics # <<>> THEN "statistics-chart"
  ELSE IF _error # 0 THEN "error"
  ELSE "state-history-charts"

\* render() without the test of the entity id in line 51.
RenderSkipsEntityTest ==
  IF ~isComponentLoaded(hass, "history") THEN "disabled"
  ELSE IF _error # 0 THEN "error"
  ELSE IF _statistics # <<>> THEN "statistics-chart"
  ELSE "state-history-charts"

\* render(): which of the five outputs the template selects.
Render ==
  IF entityId = NoEntity THEN "empty"
  ELSE IF ~isComponentLoaded(hass, "history") THEN "disabled"
  ELSE IF _error # 0 THEN "error"
  ELSE IF _statistics # <<>> THEN "statistics-chart"
  ELSE "state-history-charts"

\* subscribeHistoryStatesTimeWindow(hass, cb, 24, [this.entityId]).catch(...):
\* the new promise record.  The entity list of the request is the entity id
\* current at the call; stale tells whether the entity id has changed since.
\* thens counts the continuations registered on the promise, unsubCalls the
\* invocations of the unsubscribe action it resolved with.
NewSub ==
  [state |-> "pending", hours |-> 24, thens |-> 0, unsubCalls |-> 0,
   stale |-> FALSE]

\* _setRedrawTimer() without the clearInterval of line 140.
SetRedrawTimerNoClear ==
  /\ timerSeq' = timerSeq + 1
  /\ timers' = timers \cup {timerSeq + 1}
  /\ _interval' = timerSeq + 1

\* _setRedrawTimer(), given the id the window hands out next.
SetRedrawTimer ==
  /\ timerSeq' = timerSeq + 1
  /\ timers' = (timers \ {_interval}) \cup {timerSeq + 1}
  /\ _interval' = timerSeq + 1

\* The tail of _getStateHistory() without the test of the handle in line 164.
SubscribeTailNoGuard(base) ==
  IF ~isComponentLoaded(hass, "history")
  THEN /\ subs' = base
       /\ UNCHANGED <<_subscribed, _interval, timers, timerSeq>>
  ELSE /\ Len(base) < MaxSubs
       /\ subs' = Append(base, NewSub)
       /\ _subscribed' = Len(base) + 1
       /\ SetRedrawTimer

\* _getStateHistory() from the check of line 164 to the end, run on the
\* subscription table base.
SubscribeTail(base) ==
  IF ~isComponentLoaded(hass, "history") \/ _subscribed # 0
  THEN /\ subs' = base
       /\ UNCHANGED <<_subscribed, _interval, timers, timerSeq>>
  ELSE /\ Len(base) < MaxSubs
       /\ subs' = Append(base, NewSub)
       /\ _subscribed' = Len(base) + 1
       /\ SetRedrawTimer

\* A call suspended at the getStatisticMetadata request of line 149, made
\* with this.entityId = e.
MetaRequest(e) == [pc |-> "meta", entity |-> e, req |-> <<>>]

\* _getStateHistory() from its start to its first await or its end.
GetStateHistory(e, base) ==
  IF isComponentLoaded(hass, "recorder") /\ computeDomain(e) = "sensor"
  THEN /\ BagCardinality(calls) < MaxCalls
       /\ calls' = calls (+) SetToBag({MetaRequest(e)})
       /\ subs' = base
       /\ UNCHANGED <<_subscribed, _interval, timers, timerSeq>>
  ELSE /\ calls' = calls
       /\ SubscribeTail(base)

MarkStale(base) == [s \in DOMAIN base |-> [base[s] EXCEPT !.stale = TRUE]]

\* The host sets entityId to e on the element it renders (a connected one)
\* and the update cycle runs updated().  Subscriptions opened before the
\* change become stale.
EntityChange(e) ==
  /\ isConnected /\ hasUpdated
  /\ microtasks = <<>>
  /\ e # entityId
  /\ entityId' = e
  /\ _stateHistory' = <<>>
  /\ _statistics' = <<>>
  /\ IF e = NoEntity
     THEN /\ subs' = MarkStale(subs)
          /\ UNCHANGED <<calls, _subscribed, _interval, timers, timerSeq>>
     ELSE GetStateHistory(e, MarkStale(subs))
  /\ errorStale' = (_error # 0)
  /\ UNCHANGED <<env, isConnected, hasUpdated, _error, microtasks>>

\* connectedCallback(); the first connection also performs the first update,
\* in which no entity id is set yet.
Mount ==
  /\ ~isConnected
  /\ isConnected' = TRUE
  /\ hasUpdated' = TRUE
  /\ IF hasUpdated /\ entityId # NoEntity
     THEN GetStateHistory(entityId, subs)
     ELSE UNCHANGED <<calls, subs, _subscribed, _interval, timers, timerSeq>>
  /\ UNCHANGED <<env, entityId, _stateHistory, _statistics, _error,
                 microtasks, errorStale>>

\* _unsubscribeHistoryTimeWindow(): the continuation is parked on a pending
\* promise and queued as a microtask on a settled one.
UnsubscribeHistoryTimeWindow ==
  IF _subscribed = 0
  THEN UNCHANGED <<timers, subs, microtasks>>
  ELSE /\ subs[_subscribed].thens < MaxThens
       /\ timers' = timers \ {_interval}
       /\ subs' = [subs EXCEPT ![_subscribed].thens = @ + 1]
       /\ microtasks' = IF subs[_subscribed].state = "pending"
                        THEN microtasks
                        ELSE Append(microtasks, _subscribed)

\* disconnectedCallback()
Unmount ==
  /\ isConnected
  /\ isConnected' = FALSE
  /\ UnsubscribeHistoryTimeWindow
  /\ UNCHANGED <<env, entityId, hasUpdated, _stateHistory, _statistics,
                 _interval, _subscribed, _error, calls, timerSeq, errorStale>>

\* The continuations of line 124-129 for the promises in queue q, in order:
\* each invokes the unsubscribe action its promise resolved with, if any.
RECURSIVE RunThens(_, _)
RunThens(q, tbl) ==
  IF q = <<>> THEN tbl
  ELSE LET s == Head(q)
           t == IF tbl[s].state = "established"
                THEN [tbl EXCEPT ![s].unsubCalls = @ + 1]
                ELSE tbl
       IN RunThens(Tail(q), t)

\* The microtask checkpoint: every queued continuation runs, and each one
\* clears the handle.
MicrotaskCheckpoint ==
  /\ microtasks # <<>>
  /\ subs' = RunThens(microtasks, subs)
  /\ _subscribed' = 0
  /\ microtasks' = <<>>
  /\ UNCHANGED <<env, entityId, isConnected, hasUpdated, _stateHistory,
                 _statistics, _interval, _error, calls, timers, timerSeq,
                 errorStale>>

Remove(c) == calls (-) SetToBag({c})

\* The call c suspended at the fetchStatistics request of line 152-160,
\* made with this.entityId = e.
StatsRequest(c, e) ==
  [pc |-> "stats", entity |-> c.entity,
   req |-> <<[entity |-> e, period |-> "5minute", hours |-> 24,
              types |-> statTypes]>>]

\* The value the request of call c resolves with: the statistics asked for;
\* meta records the entity whose metadata made the call ask.
fetchStatistics(c) == [request |-> c.req[1], meta |-> c.entity]

\* getStatisticMetadata resolves and the call resumes at line 150.
MetaResolve(c) ==
  /\ microtasks = <<>>
  /\ c.pc = "meta"
  /\ IF Len(getStatisticMetadata(c.entity)) > 0
     THEN /\ calls' = Remove(c) (+) SetToBag({StatsRequest(c, entityId)})
          /\ UNCHANGED subVars
     ELSE /\ calls' = Remove(c)
          /\ SubscribeTail(subs)
  /\ UNCHANGED <<env, entityId, isConnected, hasUpdated, _stateHistory,
                 _statistics, _error, microtasks, errorStale>>

\* The resumption at line 152 without the return of line 161.
StatsResolveFallThrough(c) ==
  /\ microtasks = <<>>
  /\ c.pc = "stats"
  /\ _statistics' = <<fetchStatistics(c)>>
  /\ calls' = Remove(c)
  /\ SubscribeTail(subs)
  /\ UNCHANGED <<env, entityId, isConnected, hasUpdated, _stateHistory,
                 _error, microtasks, errorStale>>

\* fetchStatistics resolves and the call resumes at line 152, then returns.
StatsResolve(c) ==
  /\ microtasks = <<>>
  /\ c.pc = "stats"
  /\ _statistics' = <<fetchStatistics(c)>>
  /\ calls' = Remove(c)
  /\ UNCHANGED <<env, entityId, isConnected, hasUpdated, _stateHistory,
                 _interval, _subscribed, _error, subs, timers, timerSeq,
                 microtasks, errorStale>>

\* A rejected fetch that falls back to the subscription of lines 164-189.
FetchRejectFallback(c) ==
  /\ microtasks = <<>>
  /\ calls' = Remove(c)
  /\ SubscribeTail(subs)
  /\ UNCHANGED <<env, entityId, isConnected, hasUpdated, _stateHistory,
                 _statistics, _error, microtasks, errorStale>>

\* Either fetch rejects: the await throws and the call ends.
FetchReject(c) ==
  /\ microtasks = <<>>
  /\ calls' = Remove(c)
  /\ UNCHANGED <<env, entityId, isConnected, hasUpdated, _stateHistory,
                 _statistics, _interval, _subscribed, _error, subs, timers,
                 timerSeq, microtasks, errorStale>>

\* The subscription is established: the promise resolves with the
\* unsubscribe action and the continuations parked on it run.
SubResolve(s) ==
  /\ microtasks = <<>>
  /\ subs[s].state = "pending"
  /\ subs' = [subs EXCEPT ![s].state = "established",
                          ![s].unsubCalls = subs[s].thens]
  /\ _subscribed' = IF subs[s].thens > 0 THEN 0 ELSE _subscribed
  /\ UNCHANGED <<env, entityId, isConnected, hasUpdated, _stateHistory,
                 _statistics, _interval, _error, calls, timers, timerSeq,
                 microtasks, errorStale>>

\* The subscription is rejected: the catch handler of line 185-188 runs, the
\* promise resolves with undefined and the parked continuations run.
SubReject(s) ==
  /\ microtasks = <<>>
  /\ subs[s].state = "pending"
  /\ subs' = [subs EXCEPT ![s].state = "rejected"]
  /\ _subscribed' = 0
  /\ _error' = s
  /\ errorStale' = FALSE
  /\ UNCHANGED <<env, entityId, isConnected, hasUpdated, _stateHistory,
                 _statistics, _interval, calls, timers, timerSeq, microtasks>>

\* computeHistory(hass, combinedHistory, localize) for a message of
\* subscription s: always a fresh object.
computeHistory(s) ==
  [sub |-> s,
   obj |-> IF _stateHistory = <<>> THEN 0 ELSE 1 - _stateHistory[1].obj]

\* The callback of line 172-182 for a message pushed by subscription s,
\* possibly one that was already on its way when s was unsubscribed.
HistoryCallback(s) ==
  /\ microtasks = <<>>
  /\ subs[s].state = "established"
  /\ _stateHistory' = IF _subscribed = 0 THEN _stateHistory
                      ELSE <<computeHistory(s)>>
  /\ UNCHANGED <<env, entityId, isConnected, hasUpdated, _statistics,
                 _interval, _subscribed, _error, subs, calls, timers,
                 timerSeq, microtasks, errorStale>>

\* _redrawGraph() without the test of line 133: the spread of undefined is
\* an empty, truthy object.
RedrawGraphNoTest(t) ==
  /\ microtasks = <<>>
  /\ t \in timers
  /\ _stateHistory' = IF _stateHistory = <<>> THEN <<[sub |-> 0, obj |-> 0]>>
                      ELSE <<[_stateHistory[1] EXCEPT !.obj = 1 - @]>>
  /\ UNCHANGED <<env, entityId, isConnected, hasUpdated, _statistics,
                 _interval, _subscribed, _error, subs, calls, timers,
                 timerSeq, microtasks, errorStale>>

\* _redrawGraph(), called by the live interval timer t.
RedrawGraph(t) ==
  /\ microtasks = <<>>
  /\ t \in timers
  /\ _stateHistory' = IF _stateHistory = <<>> THEN _stateHistory
                      ELSE <<[_stateHistory[1] EXCEPT !.obj = 1 - @]>>
  /\ UNCHANGED <<env, entityId, isConnected, hasUpdated, _statistics,
                 _interval, _subscribed, _error, subs, calls, timers,
                 timerSeq, microtasks, errorStale>>

Next ==
  \/ \E e \in Entities \cup {NoEntity} : EntityChange(e)
  \/ Mount
  \/ Unmount
  \/ MicrotaskCheckpoint
  \/ \E c \in BagToSet(calls) : MetaResolve(c)
  \/ \E c \in BagToSet(calls) : StatsResolve(c)
  \/ \E c \in BagToSet(calls) : FetchReject(c)
  \/ \E s \in SubIds : SubResolve(s)
  \/ \E s \in SubIds : SubReject(s)
  \/ \E s \in SubIds : HistoryCallback(s)
  \/ \E t \in timers : RedrawGraph(t)

Spec == Init /\ [][Next]_vars

(***************************************************************************)
(* Properties.                                                             *)
(***************************************************************************)

StatsEligible(e) ==
  /\ isComponentLoaded(hass, "recorder")
  /\ computeDomain(e) = "sensor"
  /\ Len(getStatisticMetadata(e)) > 0

Queued(s) == \E i \in 1..Len(microtasks) : microtasks[i] = s

Unmounted == hasUpdated /\ ~isConnected

\* C1: at most one of the statistics result and the history result is
\* non-empty in every reachable state.
C1_ResultsExclusive == ~(_statistics # <<>> /\ _stateHistory # <<>>)

\* C2: a subscription callback delivered while the component is unmounted
\* changes neither the history result nor any other displayed state.
C2_LateCallbackIgnored ==
  [][(Unmounted /\ \E s \in SubIds : HistoryCallback(s))
       => UNCHANGED <<_stateHistory, _statistics, _error, entityId>>]_vars

\* C3: while the component is unmounted no redraw timer is running.
C3_UnmountCancelsTimer == Unmounted => timers = {}

\* C4: the unsubscribe action of a subscription is never invoked twice, and
\* it has been invoked exactly once when every continuation that an unmount
\* registered on the established subscription has run.
C4_ExactlyOneUnsubscribe ==
  \A s \in SubIds :
    /\ subs[s].unsubCalls <= 1
    /\ (subs[s].state = "established" /\ subs[s].thens > 0 /\ ~Queued(s))
         => subs[s].unsubCalls = 1

\* C5: at most one backend subscription that was opened is neither
\* unsubscribed nor rejected.
C5_AtMostOneLiveSubscription == Cardinality(LiveSubs) <= 1

\* C5 witness: a second subscription is live after the first one ended,
\* while another acquisition call is still suspended.
C5_Witness ==
  /\ Len(subs) >= 2
  /\ Cardinality(LiveSubs) = 1
  /\ calls # EmptyBag

\* C6: after an entity change no subscription opened before the change is
\* still live or still held in the handle.
C6_EntityChangeClearsHandle ==
  \A s \in SubIds : subs[s].stale => (~Live(s) /\ _subscribed # s)

\* C7: once the acquisition of a cycle for an entity without statistics
\* metadata has finished, with the history module loaded and no teardown or
\* rejection in the cycle, exactly one subscription over a 24 hour window
\* was opened in the cycle and the redraw timer runs.
C7_OneSubscriptionPerCycle ==
  ( /\ isConnected
    /\ entityId # NoEntity
    /\ ~StatsEligible(entityId)
    /\ isComponentLoaded(hass, "history")
    /\ Idle
    /\ \A s \in SubIds :
         ~subs[s].stale => (subs[s].state # "rejected" /\ subs[s].thens = 0) )
  => /\ Cardinality({s \in SubIds : ~subs[s].stale /\ subs[s].hours = 24}) = 1
     /\ _interval \in timers

\* C8: a call that found statistics metadata asks for 5-minute statistics
\* over 24 hours, stores the answer as the statistics result, and neither
\* opens a subscription nor starts the redraw timer.
C8_StatisticsBranch ==
  [][\A c \in BagToSet(calls) :
       /\ (MetaResolve(c) /\ Len(getStatisticMetadata(c.entity)) > 0)
            => /\ UNCHANGED subVars
               /\ \E d \in BagToSet(calls') :
                    /\ d.pc = "stats"
                    /\ d.req = <<[entity |-> entityId, period |-> "5minute",
                                  hours |-> 24, types |-> statTypes]>>
       /\ StatsResolve(c)
            => /\ UNCHANGED subVars
               /\ _statistics' # <<>>
               /\ _statistics'[1].request = c.req[1]
               /\ c.req[1].period = "5minute" /\ c.req[1].hours = 24]_vars

\* C8 witness: the statistics result holds 5-minute statistics of the entity
\* with metadata, and no subscription was ever opened.
C8_Witness ==
  /\ _statistics # <<>>
  /\ _statistics[1].request.period = "5minute"
  /\ StatsEligible(entityId)
  /\ subs = <<>>

Rejected == \E s \in SubIds : subs[s].state = "rejected"

Charts == {"statistics-chart", "state-history-charts"}

\* C9 as stated: once a subscription was rejected the render selector
\* yields the error message.
C9_RejectionShowsError == Rejected => Render = "error"

\* C9 amended: a rejection clears the handle and records the error; from
\* then on the render selector yields no chart, and yields the error
\* message whenever an entity id is set and the history module is loaded.
C9_RejectionReplacesCharts ==
  /\ [][\A s \in SubIds :
          (subs[s].state = "pending" /\ subs'[s].state = "rejected")
            => (_subscribed' = 0 /\ _error' = s)]_vars
  /\ [](Rejected =>
          /\ _error # 0
          /\ Render \notin Charts
          /\ (entityId # NoEntity /\ isComponentLoaded(hass, "history"))
               => Render = "error")

\* C9 witness: after a rejection the statistics result is non-empty and the
\* error message is what the selector yields.
C9_Witness ==
  /\ Rejected
  /\ _statistics # <<>>
  /\ Render = "error"

\* C10: while the entity id stays what it was when the error was recorded
\* no subscription is opened, and the error message shown is never the
\* error of an earlier entity-change cycle.
C10_ErrorEndsWithCycle ==
  /\ [][(_error # 0 /\ ~errorStale /\ entityId' = entityId)
          => Len(subs') = Len(subs)]_vars
  /\ [](Render = "error" => ~errorStale)

\* C11: a running redraw timer implies that the subscription handle is
\* non-empty; in particular no timer runs after a rejection has cleared it.
C11_TimerOnlyWhileSubscribed == timers # {} => _subscribed # 0

\* C12: the render selector yields exactly one of five outputs, chosen in
\* the order: empty without entity id, disabled without the history module,
\* the error message, the statistics chart, the state-history chart.
C12_RenderPriority ==
  LET set == entityId # NoEntity
      on == isComponentLoaded(hass, "history")
  IN /\ Render \in {"empty", "disabled", "error"} \cup Charts
     /\ Render = "empty" <=> ~set
     /\ Render = "disabled" <=> (set /\ ~on)
     /\ Render = "error" <=> (set /\ on /\ _error # 0)
     /\ Render = "statistics-chart"
          <=> (set /\ on /\ _error = 0 /\ _statistics # <<>>)
     /\ Render = "state-history-charts"
          <=> (set /\ on /\ _error = 0 /\ _statistics = <<>>)

\* C12 witness: both results are non-empty and the selector yields the
\* statistics chart alone.
C12_Witness ==
  /\ _statistics # <<>>
  /\ _stateHistory # <<>>
  /\ Render = "statistics-chart"

\* C13: a callback of a subscription that the handle no longer holds never
\* writes the history result, also when the handle holds a newer
\* subscription.
C13_StaleCallbackIgnored ==
  [][\A s \in SubIds :
       (HistoryCallback(s) /\ _subscribed # s)
         => _stateHistory' = _stateHistory]_vars

\* C14: at most one interval timer that was set is not cleared, and it is
\* the one recorded in _interval.
C14_AtMostOneTimer == Cardinality(timers) <= 1 /\ timers \subseteq {_interval}

\* C14 witness: after a rejection left the first timer running with the
\* handle empty, a second timer was set and is the only live one.
C14_Witness ==
  /\ _error # 0
  /\ timerSeq >= 2
  /\ timers = {timerSeq}
  /\ \A s \in SubIds : subs[s].thens = 0

\* C15: a tick of the redraw timer replaces a non-empty history result by a
\* copy with the same content, leaves an empty one empty, and changes
\* neither the statistics result, the handle, the error nor the timer.
C15_TickOnlyCopies ==
  [][\A t \in timers :
       RedrawGraph(t)
         => /\ _stateHistory = <<>> => _stateHistory' = <<>>
            /\ _stateHistory # <<>>
                 => /\ _stateHistory' # <<>>
                    /\ _stateHistory'[1].sub = _stateHistory[1].sub
                    /\ _stateHistory'[1].obj # _stateHistory[1].obj
            /\ UNCHANGED <<_statistics, _subscribed, _error, _interval,
                           timers, subs, calls, entityId>>]_vars

\* C15 witness: a timer is live and the history result is non-empty with
\* its object replaced.
C15_Witness ==
  /\ timers # {}
  /\ _stateHistory # <<>>
  /\ _stateHistory[1].obj = 1

C17_NoLeakPastUnmount ==
  (Unmounted /\ Idle /\ \A s \in SubIds : subs[s].state # "pending")
    => LiveSubs = {}

\* C18: whenever the component is mounted and initialized, its entity has no
\* statistics metadata, the history module is loaded and nothing asynchronous
\* is pending, either a subscription is live with the redraw timer running
\* or an error is recorded.
C18_RemountRestoresStream ==
  ( /\ isConnected /\ hasUpdated
    /\ entityId # NoEntity
    /\ ~StatsEligible(entityId)
    /\ isComponentLoaded(hass, "history")
    /\ Idle
    /\ \A s \in SubIds : subs[s].state # "pending" )
  => \/ (LiveSubs # {} /\ _interval \in timers)
     \/ _error # 0

\* C19: a non-empty statistics result was requested for the entity id
\* currently set, on the basis of metadata of that entity id.
C19_StatisticsOfCurrentEntity ==
  _statistics # <<>>
    => /\ _statistics[1].request.entity = entityId
       /\ _statistics[1].meta = entityId

TypeOK ==
  /\ statisticIds \subseteq Entities
  /\ hass \subseteq Components
  /\ entityId \in Entities \cup {NoEntity}
  /\ isConnected \in BOOLEAN /\ hasUpdated \in BOOLEAN
  /\ Len(_stateHistory) <= 1 /\ Len(_statistics) <= 1
  /\ _interval \in 0..MaxSubs /\ timerSeq \in 0..MaxSubs
  /\ _subscribed \in {0} \cup SubIds
  /\ _error \in {0} \cup SubIds
  /\ Len(subs) <= MaxSubs
  /\ BagCardinality(calls) <= MaxCalls
  /\ timers \subseteq 1..timerSeq
====
